---- MODULE Spec2Model ----
(***************************************************************************)
(* Model of sky.py (pynephoscope): SkyCatalog (calculate, filter) and      *)
(* SkyRenderer (renderCatalog, render, altazToPos, findStar,               *)
(* highlightStar).                                                         *)
(*                                                                         *)
(* Units.  Altitudes are whole degrees.  Magnitudes are tenths of a        *)
(* magnitude (MagScale).  An azimuth, and every angle handed to cos/sin,   *)
(* is a direction number k in 0..NumDirs-1: the angle whose cosine and     *)
(* sine are CosTable[k+1]/TrigScale and SinTable[k+1]/TrigScale (exact     *)
(* rationals); 0 is 0 deg, 3 is 90 deg, 6 is 180 deg, 9 is 270 deg, and    *)
(* the numbers grow with the angle.  Pixel positions, which the code keeps *)
(* as floats, are kept exactly in units of 1/PosScale pixel.  Names are    *)
(* sequences of characters, so that the fixed-width string dtype of the    *)
(* numpy arrays can cut them.                                              *)
(***************************************************************************)
EXTENDS Integers, Sequences, FiniteSets, TLC

\* ------------------------------------------------------------------ bounds
MaxStars == 2
MaxCalc == 2
MaxRows == 2

\* --------------------------------------------------------------- constants
MagScale == 10
TrigScale == 5
RightAngle == 90
NumDirs == 12
FullTurn == 360
PosScale == 2 * RightAngle * TrigScale
HalfPos == RightAngle * TrigScale

\* ------------------------------------------------------------------- names
Venus == <<"V", "e", "n", "u", "s">>
Mars == <<"M", "a", "r", "s">>
Jupiter == <<"J", "u", "p", "i", "t", "e", "r">>
Saturn == <<"S", "a", "t", "u", "r", "n">>
Moon == <<"M", "o", "o", "n">>
Sun == <<"S", "u", "n">>

StarNames ==
  << <<"M", "i", "z", "a", "r">>, <<"A", "l", "c", "o", "r">>,
     <<"V", "e", "g", "a">>, <<"D", "e", "n", "e", "b">> >>

\* --------------------------------------------------------- small utilities
Min(a, b) == IF a <= b THEN a ELSE b

\* Python's int() on a float: truncation toward zero (b > 0).
TruncDiv(a, b) == IF a >= 0 THEN a \div b ELSE -((-a) \div b)

\* A fixed-width string dtype keeps at most `width` characters.
Truncate(name, width) == SubSeq(name, 1, Min(width, Len(name)))

\* arr[mask] with a boolean mask of the same length.
RECURSIVE Mask(_, _)
Mask(arr, show) ==
  IF Len(arr) = 0 THEN <<>>
  ELSE (IF Head(show) THEN <<Head(arr)>> ELSE <<>>) \o Mask(Tail(arr), Tail(show))

\* np.insert(arr, [0], value): a new array with value in front.
Insert(arr, value) == <<value>> \o arr

\* np.insert on a string array casts the value to the array's dtype first.
InsertName(arr, width, name) == Insert(arr, Truncate(name, width))

\* ------------------------------------------------- external computations
Locations == {1}
Times == {1, 2}

\* ephem: body.compute(observer) gives mag, alt, az of the body.
BodyIndex(body) ==
  CASE body = Venus -> 1 [] body = Mars -> 2 [] body = Jupiter -> 3
    [] body = Saturn -> 4 [] body = Moon -> 5 [] body = Sun -> 6

BodyMagTable == << <<-40, 10, -20, 5, -120, -267>>, <<-43, 12, -25, 7, -90, -267>> >>
BodyAltTable == << <<30, -30, 60, 0, 30, 90>>, <<-30, 30, 0, 60, 90, -30>> >>
BodyAzTable == << <<1, 4, 6, 9, 3, 0>>, <<2, 5, 7, 10, 11, 8>> >>

ephemMag(body, location, time) == BodyMagTable[time][BodyIndex(body)]
ephemAlt(body, location, time) == BodyAltTable[time][BodyIndex(body)]
ephemAz(body, location, time) == BodyAzTable[time][BodyIndex(body)]

\* ephem.Angle.znorm: the angle normalised into [-180, 180) degrees.
znorm(a) == ((a + 2 * RightAngle) % FullTurn) - 2 * RightAngle

\* The star table after loading: name, ra, dec (first '|' segment), mag.
StarMags == <<65, 100, 0, 13>>
StarRow(i) == [name |-> Truncate(StarNames[i], 20), ra |-> i, dec |-> 10 * i,
               mag |-> StarMags[i]]
StarTable(n) == [i \in 1..n |-> StarRow(i)]

\* astropy: SkyCoord(ra, dec).transform_to(AltAz(obstime, location)).
StarAltTable == << <<60, 0, 30, -30>>, <<-30, 30, 90, 0>> >>
StarAzTable == << <<2, 11, 6, 8>>, <<4, 1, 0, 10>> >>
transformAlt(row, location, time) == StarAltTable[time][row.ra]
transformAz(row, location, time) == StarAzTable[time][row.ra]

\* ------------------------------------------------------------------- state
VARIABLES catalog, renderer, ret, ncalc
vars == <<catalog, renderer, ret, ncalc>>

Sizes == {10, 20}

\* SkyCatalog.__init__
NewCatalog(sun_only, moon_only, n) ==
  [ephemerides |-> IF sun_only THEN <<Sun>>
                   ELSE IF moon_only THEN <<Moon>>
                   ELSE <<Venus, Mars, Jupiter, Saturn, Moon, Sun>>,
   dataIsNone |-> sun_only \/ moon_only,
   data |-> IF sun_only \/ moon_only THEN <<>> ELSE StarTable(n),
   location |-> 0, time |-> 0,
   calculated |-> FALSE,
   names |-> <<>>, vmag |-> <<>>, alt |-> <<>>, az |-> <<>>]

\* SkyRenderer.__init__
NewRenderer(size) ==
  [size |-> size,
   image |-> [isNone |-> TRUE, shapes |-> <<>>],
   hasSet |-> FALSE, names |-> <<>>, vmag |-> <<>>, alt |-> <<>>, az |-> <<>>,
   hasPos |-> FALSE, x |-> <<>>, y |-> <<>>]

Init ==
  /\ \E sun_only \in BOOLEAN, moon_only \in BOOLEAN, n \in 0..MaxStars :
       /\ (sun_only \/ moon_only) => n = 0
       /\ catalog = NewCatalog(sun_only, moon_only, n)
  /\ \E size \in Sizes : renderer = NewRenderer(size)
  /\ ret = [op |-> "init", status |-> "ok"]
  /\ ncalc = 0

\* ------------------------------------------------------------- SkyCatalog
setLocation(location) ==
  /\ catalog' = [catalog EXCEPT !.location = location]
  /\ ret' = [op |-> "setLocation", status |-> "ok"]
  /\ UNCHANGED <<renderer, ncalc>>

setTime(time) ==
  /\ catalog' = [catalog EXCEPT !.time = time]
  /\ ret' = [op |-> "setTime", status |-> "ok"]
  /\ UNCHANGED <<renderer, ncalc>>

\* Width of the dtype of self.names in calculate().
nameWidth(cat) == IF cat.dataIsNone THEN 1 ELSE 20

\* calculate(), lines 65-79: the four sequences before the bodies are added.
calculateBase_accumulating(cat) ==
  IF cat.calculated
  THEN [names |-> cat.names, vmag |-> cat.vmag, alt |-> cat.alt, az |-> cat.az]
  ELSE [names |-> [i \in 1..Len(cat.data) |-> cat.data[i].name],
        vmag |-> [i \in 1..Len(cat.data) |-> cat.data[i].mag],
        alt |-> [i \in 1..Len(cat.data) |-> transformAlt(cat.data[i], cat.location, cat.time)],
        az |-> [i \in 1..Len(cat.data) |-> transformAz(cat.data[i], cat.location, cat.time)]]

calculateBase(cat) ==
  IF cat.dataIsNone
  THEN [names |-> <<>>, vmag |-> <<>>, alt |-> <<>>, az |-> <<>>]
  ELSE [names |-> [i \in 1..Len(cat.data) |-> cat.data[i].name],
        vmag |-> [i \in 1..Len(cat.data) |-> cat.data[i].mag],
        alt |-> [i \in 1..Len(cat.data) |-> transformAlt(cat.data[i], cat.location, cat.time)],
        az |-> [i \in 1..Len(cat.data) |-> transformAz(cat.data[i], cat.location, cat.time)]]

\* calculate(), lines 82-86: one pass of the loop over self.ephemerides.
addBody_appending(obs, ephemeris, width, location, time) ==
  [vmag |-> Append(obs.vmag, ephemMag(ephemeris, location, time)),
   alt |-> Append(obs.alt, znorm(ephemAlt(ephemeris, location, time))),
   az |-> Append(obs.az, ephemAz(ephemeris, location, time)),
   names |-> Append(obs.names, Truncate(ephemeris, width))]

addBody(obs, ephemeris, width, location, time) ==
  [vmag |-> Insert(obs.vmag, ephemMag(ephemeris, location, time)),
   alt |-> Insert(obs.alt, znorm(ephemAlt(ephemeris, location, time))),
   az |-> Insert(obs.az, ephemAz(ephemeris, location, time)),
   names |-> InsertName(obs.names, width, ephemeris)]

\* calculate(), line 81: the loop, in the order of self.ephemerides.
RECURSIVE addBodies(_, _, _, _, _)
addBodies(obs, ephemerides, width, location, time) ==
  IF Len(ephemerides) = 0 THEN obs
  ELSE addBodies(addBody(obs, Head(ephemerides), width, location, time),
                 Tail(ephemerides), width, location, time)

calculateResult(cat) ==
  addBodies(calculateBase(cat), cat.ephemerides, nameWidth(cat), cat.location, cat.time)

calculate ==
  /\ IF catalog.location = 0 \/ catalog.time = 0
     THEN /\ ret' = [op |-> "calculate", status |-> "error"]
          /\ UNCHANGED <<catalog, ncalc>>
     ELSE LET obs == calculateResult(catalog) IN
          /\ catalog' = [catalog EXCEPT !.calculated = TRUE,
                           !.names = obs.names, !.vmag = obs.vmag,
                           !.alt = obs.alt, !.az = obs.az]
          /\ ret' = [op |-> "calculate", status |-> "ok",
                     names |-> obs.names, vmag |-> obs.vmag,
                     alt |-> obs.alt, az |-> obs.az]
          /\ ncalc' = Min(ncalc + 1, MaxCalc)
  /\ UNCHANGED renderer

\* filter(), lines 91-105: the two masks, one after the other.
filterResult_strictAlt(cat, min_alt, max_mag) ==
  LET show == [i \in 1..Len(cat.alt) |-> cat.alt[i] > min_alt]
      vmag == Mask(cat.vmag, show)
      show_mags == [i \in 1..Len(vmag) |-> vmag[i] < max_mag]
  IN [names |-> Mask(Mask(cat.names, show), show_mags),
      vmag |-> Mask(vmag, show_mags),
      alt |-> Mask(Mask(cat.alt, show), show_mags),
      az |-> Mask(Mask(cat.az, show), show_mags)]

filterResult(cat, min_alt, max_mag) ==
  LET show == [i \in 1..Len(cat.alt) |-> cat.alt[i] >= min_alt]
      names == Mask(cat.names, show)
      vmag == Mask(cat.vmag, show)
      alt == Mask(cat.alt, show)
      az == Mask(cat.az, show)
      show_mags == [i \in 1..Len(vmag) |-> vmag[i] < max_mag]
  IN [names |-> Mask(names, show_mags),
      vmag |-> Mask(vmag, show_mags),
      alt |-> Mask(alt, show_mags),
      az |-> Mask(az, show_mags)]

MinAlts == {0, 30}
MaxMags == {10, 65, 130}

filter_storing(min_alt, max_mag) ==
  /\ catalog.calculated
  /\ LET f == filterResult(catalog, min_alt, max_mag) IN
       /\ ret' = [op |-> "filter", status |-> "ok", min_alt |-> min_alt,
                  max_mag |-> max_mag, names |-> f.names, vmag |-> f.vmag,
                  alt |-> f.alt, az |-> f.az]
       /\ catalog' = [catalog EXCEPT !.names = f.names, !.vmag = f.vmag,
                        !.alt = f.alt, !.az = f.az]
  /\ UNCHANGED <<renderer, ncalc>>

filter(min_alt, max_mag) ==
  /\ IF ~catalog.calculated
     THEN ret' = [op |-> "filter", status |-> "error", min_alt |-> min_alt,
                  max_mag |-> max_mag]
     ELSE LET f == filterResult(catalog, min_alt, max_mag) IN
          ret' = [op |-> "filter", status |-> "ok", min_alt |-> min_alt,
                  max_mag |-> max_mag, names |-> f.names, vmag |-> f.vmag,
                  alt |-> f.alt, az |-> f.az]
  /\ UNCHANGED <<catalog, renderer, ncalc>>

\* ------------------------------------------------------------ SkyRenderer
CosTable == <<5, 4, 3, 0, -3, -4, -5, -4, -3, 0, 3, 4>>
SinTable == <<0, 3, 4, 5, 4, 3, 0, -3, -4, -5, -4, -3>>
cos(k) == CosTable[k + 1]
sin(k) == SinTable[k + 1]

\* The angle -pi/2 - az as a direction number.
angleOf_clockwise(az) == (2 * NumDirs - (NumDirs \div 4) + az) % NumDirs

angleOf(az) == (2 * NumDirs - (NumDirs \div 4) - az) % NumDirs

\* r = (1 - alt / (pi/2)) * size / 2, times 2 * RightAngle.
radial_noComplement(alt, size) == alt * size

radial(alt, size) == (RightAngle - alt) * size

\* altazToPos(): altaz is [ndim, v]; v is one (alt, az) pair when ndim = 1
\* and a sequence of pairs when ndim = 2.  The result is a sequence of
\* <<x, y>>, each in units of 1/PosScale pixel.
altazToPos(altaz, size) ==
  LET rows == IF altaz.ndim = 1 THEN <<altaz.v>> ELSE altaz.v
  IN [i \in 1..Len(rows) |->
        LET r == radial(rows[i][1], size) IN
        << r * cos(angleOf(rows[i][2])) + size * HalfPos,
           r * sin(angleOf(rows[i][2])) + size * HalfPos >>]

\* np.column_stack((alt, az))
column_stack(alt, az) == [ndim |-> 2, v |-> [i \in 1..Len(alt) |-> <<alt[i], az[i]>>]]

\* int(7 - vmag)
circleRadius(vmag) == TruncDiv(7 * MagScale - vmag, MagScale)

\* render(), lines 140-144: the drawing loop from object i on.  cv2.circle
\* rejects a negative radius with an error, which ends the loop.
RECURSIVE drawLoop(_, _, _)
drawLoop(r, i, shapes) ==
  IF i > Len(r.names) THEN [ok |-> TRUE, shapes |-> shapes]
  ELSE LET cx == TruncDiv(r.x[i], PosScale)
           cy == TruncDiv(r.y[i], PosScale)
           rad == circleRadius(r.vmag[i])
           circle == [kind |-> "circle", x |-> cx, y |-> cy, radius |-> rad,
                      color |-> 255, obj |-> i]
           text == [kind |-> "text", x |-> cx + 6, y |-> cy, name |-> r.names[i],
                    color |-> 150, obj |-> i]
       IN IF rad < 0 THEN [ok |-> FALSE, shapes |-> shapes]
          ELSE drawLoop(r, i + 1,
                 shapes \o <<circle>> \o
                 (IF r.vmag[i] < 1 * MagScale THEN <<text>> ELSE <<>>))

\* render(): the renderer afterwards and whether it returned.
renderOn(r) ==
  IF ~r.hasSet
  THEN [ok |-> FALSE,
        renderer |-> [r EXCEPT !.image = [isNone |-> FALSE, shapes |-> <<>>]]]
  ELSE LET pos == altazToPos(column_stack(r.alt, r.az), r.size)
           r1 == [r EXCEPT !.hasPos = TRUE,
                           !.x = [i \in 1..Len(pos) |-> pos[i][1]],
                           !.y = [i \in 1..Len(pos) |-> pos[i][2]]]
           d == drawLoop(r1, 1, <<>>)
       IN [ok |-> d.ok,
           renderer |-> [r1 EXCEPT !.image = [isNone |-> FALSE, shapes |-> d.shapes]]]

render ==
  /\ LET res == renderOn(renderer) IN
       /\ renderer' = res.renderer
       /\ ret' = IF res.ok
                 THEN [op |-> "render", status |-> "ok", image |-> res.renderer.image]
                 ELSE [op |-> "render", status |-> "error"]
  /\ UNCHANGED <<catalog, ncalc>>

renderCatalog(max_mag) ==
  /\ IF ~catalog.calculated
     THEN /\ ret' = [op |-> "renderCatalog", status |-> "error", max_mag |-> max_mag]
          /\ UNCHANGED renderer
     ELSE LET f == filterResult(catalog, 0, max_mag)
              r0 == [renderer EXCEPT !.hasSet = TRUE, !.names = f.names,
                       !.vmag = f.vmag, !.alt = f.alt, !.az = f.az]
              res == renderOn(r0)
          IN /\ renderer' = res.renderer
             /\ ret' = IF res.ok
                       THEN [op |-> "renderCatalog", status |-> "ok",
                             max_mag |-> max_mag, image |-> res.renderer.image]
                       ELSE [op |-> "renderCatalog", status |-> "error",
                             max_mag |-> max_mag]
  /\ UNCHANGED <<catalog, ncalc>>

\* c = a * a + b * b for cached object i, in units of 1/PosScale^2.
dist2(r, i, x, y) ==
  (r.x[i] - x * PosScale) * (r.x[i] - x * PosScale)
    + (r.y[i] - y * PosScale) * (r.y[i] - y * PosScale)

\* c.argmin(): the first index of a minimal element.
argmin(r, x, y) ==
  CHOOSE i \in 1..Len(r.x) :
    /\ \A j \in 1..Len(r.x) : dist2(r, i, x, y) <= dist2(r, j, x, y)
    /\ \A j \in 1..(i - 1) : dist2(r, j, x, y) > dist2(r, i, x, y)

\* Line 156: c[index] < radius * radius.
withinRadius_inclusive(c, radius) == c <= radius * radius * PosScale * PosScale

withinRadius(c, radius) == c < radius * radius * PosScale * PosScale

Queries == {<<5, 0>>, <<5, 10>>, <<10, 10>>}
Radii == {1, 5}

findStar_lenient(x, y, radius) ==
  /\ IF ~renderer.hasPos \/ Len(renderer.x) = 0
     THEN ret' = [op |-> "findStar", status |-> "ok", x |-> x, y |-> y,
                  radius |-> radius, found |-> FALSE]
     ELSE LET index == argmin(renderer, x, y) IN
          IF withinRadius(dist2(renderer, index, x, y), radius)
          THEN ret' = [op |-> "findStar", status |-> "ok", x |-> x, y |-> y,
                       radius |-> radius, found |-> TRUE,
                       alt |-> renderer.alt[index], az |-> renderer.az[index],
                       name |-> renderer.names[index]]
          ELSE ret' = [op |-> "findStar", status |-> "ok", x |-> x, y |-> y,
                       radius |-> radius, found |-> FALSE]
  /\ UNCHANGED <<catalog, renderer, ncalc>>

\* findStar(): an AttributeError without cached x, y; a ValueError from
\* argmin() on an empty cache.
findStar(x, y, radius) ==
  /\ IF ~renderer.hasPos \/ Len(renderer.x) = 0
     THEN ret' = [op |-> "findStar", status |-> "error", x |-> x, y |-> y,
                  radius |-> radius]
     ELSE LET index == argmin(renderer, x, y) IN
          IF withinRadius(dist2(renderer, index, x, y), radius)
          THEN ret' = [op |-> "findStar", status |-> "ok", x |-> x, y |-> y,
                       radius |-> radius, found |-> TRUE,
                       alt |-> renderer.alt[index], az |-> renderer.az[index],
                       name |-> renderer.names[index]]
          ELSE ret' = [op |-> "findStar", status |-> "ok", x |-> x, y |-> y,
                       radius |-> radius, found |-> FALSE]
  /\ UNCHANGED <<catalog, renderer, ncalc>>

Next ==
  \/ \E location \in Locations : setLocation(location)
  \/ \E time \in Times : setTime(time)
  \/ calculate
  \/ \E min_alt \in MinAlts, max_mag \in MaxMags : filter(min_alt, max_mag)
  \/ \E max_mag \in MaxMags : renderCatalog(max_mag)
  \/ render
  \/ \E q \in Queries, radius \in Radii : findStar(q[1], q[2], radius)

Spec == Init /\ [][Next]_vars

\* ------------------------------------------ the projection on its own
ProjAlts == {-30, 0, 30, 90}
ProjAzs == 0..(NumDirs - 1)
ProjPairs == ProjAlts \X ProjAzs
ProjRows == UNION {[1..n -> ProjPairs] : n \in 0..MaxRows}

\* A direct call of altazToPos on the pending input, a single pair or an
\* array of pairs.
altazToPosCall ==
  /\ ret.op = "input"
  /\ ret' = [op |-> "altazToPos", status |-> "ok", altaz |-> ret.altaz,
             pos |-> altazToPos(ret.altaz, renderer.size)]
  /\ UNCHANGED <<catalog, renderer, ncalc>>

\* highlightStar(image, altaz, radius, color) on the pending input: an
\* unfilled circle on the caller's image at the projected pixel.
highlightStar(radius, color) ==
  /\ ret.op = "input"
  /\ ret.altaz.ndim = 1
  /\ LET pos == altazToPos(ret.altaz, renderer.size)[1] IN
       ret' = [op |-> "highlightStar", status |-> IF radius < 0 THEN "error" ELSE "ok",
               altaz |-> ret.altaz,
               circle |-> [kind |-> "circle", x |-> TruncDiv(pos[1], PosScale),
                           y |-> TruncDiv(pos[2], PosScale), radius |-> radius,
                           color |-> color]]
  /\ UNCHANGED <<catalog, renderer, ncalc>>

ProjInit ==
  /\ catalog = NewCatalog(TRUE, FALSE, 0)
  /\ \E size \in Sizes : renderer = NewRenderer(size)
  /\ \/ \E pair \in ProjPairs : ret = [op |-> "input", altaz |-> [ndim |-> 1, v |-> pair]]
     \/ \E rows \in ProjRows : ret = [op |-> "input", altaz |-> [ndim |-> 2, v |-> rows]]
  /\ ncalc = 0

ProjNext ==
  \/ altazToPosCall
  \/ \E radius \in {-1, 3} : highlightStar(radius, 255)

ProjSpec == ProjInit /\ [][ProjNext]_vars

\* ------------------------------------------------------------------ claims
ExpectedBodyOrder == <<Sun, Moon, Saturn, Jupiter, Mars, Venus>>

\* C1: in full mode, with the bodies configured as [Venus, Mars, Jupiter,
\* Saturn, Moon, Sun] and a static table of n entries, calculate() returns
\* four sequences of length n + 6 whose names are [Sun, Moon, Saturn,
\* Jupiter, Mars, Venus, e0, ..., en-1], and the magnitude, altitude and
\* azimuth at each index are those of the object named at that index.
C1_BodyPrependOrder ==
  (ret.op = "calculate" /\ ret.status = "ok" /\ ~catalog.dataIsNone
     /\ catalog.ephemerides = <<Venus, Mars, Jupiter, Saturn, Moon, Sun>>) =>
    LET n == Len(catalog.data)
        l == catalog.location
        t == catalog.time
    IN /\ Len(ret.names) = n + 6
       /\ Len(ret.vmag) = n + 6
       /\ Len(ret.alt) = n + 6
       /\ Len(ret.az) = n + 6
       /\ ret.names = ExpectedBodyOrder \o [i \in 1..n |-> catalog.data[i].name]
       /\ \A i \in 1..6 :
            /\ ret.vmag[i] = ephemMag(ExpectedBodyOrder[i], l, t)
            /\ ret.alt[i] = znorm(ephemAlt(ExpectedBodyOrder[i], l, t))
            /\ ret.az[i] = ephemAz(ExpectedBodyOrder[i], l, t)
       /\ \A i \in 1..n :
            /\ ret.vmag[6 + i] = catalog.data[i].mag
            /\ ret.alt[6 + i] = transformAlt(catalog.data[i], l, t)
            /\ ret.az[6 + i] = transformAz(catalog.data[i], l, t)

C1_Witness ==
  /\ ret.op = "calculate" /\ ret.status = "ok" /\ ~catalog.dataIsNone
  /\ Len(catalog.data) >= 2

\* The stored ObservationSet has one entry per body and per table row, and
\* every body is there exactly once (under the name the array's dtype keeps).
ObservationSetIsFresh ==
  catalog.calculated =>
    LET n == Len(catalog.ephemerides) + Len(catalog.data) IN
    /\ Len(catalog.names) = n
    /\ Len(catalog.vmag) = n
    /\ Len(catalog.alt) = n
    /\ Len(catalog.az) = n
    /\ \A b \in 1..Len(catalog.ephemerides) :
         Cardinality({i \in 1..Len(catalog.names) :
            catalog.names[i] = Truncate(catalog.ephemerides[b], nameWidth(catalog))}) = 1
    /\ (ret.op = "calculate" /\ ret.status = "ok") =>
         /\ ret.names = catalog.names
         /\ ret.vmag = catalog.vmag
         /\ ret.alt = catalog.alt
         /\ ret.az = catalog.az

\* C2: after any number k >= 1 of calculate() calls on one SkyCatalog (full,
\* sun-only or moon-only mode) the stored and returned sequences have length
\* (number of bodies + number of table entries), each body appears exactly
\* once, and the static table self.data is never changed.
C2_FreshOnEveryCall ==
  /\ []ObservationSetIsFresh
  /\ [][catalog'.data = catalog.data /\ catalog'.dataIsNone = catalog.dataIsNone]_vars

C2_Witness ==
  /\ ncalc >= 2
  /\ ret.op = "calculate" /\ ret.status = "ok"
  /\ Len(catalog.data) >= 1

\* The indices of the stored ObservationSet that pass both thresholds.
Passing(min_alt, max_mag) ==
  {i \in 1..Len(catalog.alt) : catalog.alt[i] >= min_alt /\ catalog.vmag[i] < max_mag}

\* The position, among the passing entries, of passing entry i.
Rank(S, i) == Cardinality({j \in S : j <= i})

\* C3: filter(min_alt, max_mag) returns exactly the stored entries with
\* altitude >= min_alt and magnitude < max_mag, as four parallel sequences of
\* equal length in their stored relative order; an empty result is returned
\* without an error.
C3_FilterExact ==
  (ret.op = "filter" /\ catalog.calculated) =>
    LET S == Passing(ret.min_alt, ret.max_mag) IN
    /\ ret.status = "ok"
    /\ Len(ret.names) = Cardinality(S)
    /\ Len(ret.vmag) = Cardinality(S)
    /\ Len(ret.alt) = Cardinality(S)
    /\ Len(ret.az) = Cardinality(S)
    /\ \A i \in S :
         /\ ret.names[Rank(S, i)] = catalog.names[i]
         /\ ret.vmag[Rank(S, i)] = catalog.vmag[i]
         /\ ret.alt[Rank(S, i)] = catalog.alt[i]
         /\ ret.az[Rank(S, i)] = catalog.az[i]

C3_Witness ==
  /\ ret.op = "filter" /\ ret.status = "ok"
  /\ Len(ret.names) >= 2
  /\ \E i \in Passing(ret.min_alt, ret.max_mag) : catalog.alt[i] = ret.min_alt
  /\ \E i \in 1..Len(catalog.alt) :
       catalog.alt[i] >= ret.min_alt /\ catalog.vmag[i] = ret.max_mag

\* C4: filter() leaves the stored names, magnitudes, altitudes and azimuths
\* as calculate() stored them, and a filter() call directly after a filter()
\* call with the same thresholds returns the same result.
C4_FilterDoesNotMutate ==
  [][ret'.op = "filter" =>
       /\ catalog' = catalog
       /\ (ret.op = "filter" /\ ret.min_alt = ret'.min_alt
             /\ ret.max_mag = ret'.max_mag) => ret' = ret]_vars

C4_Witness ==
  /\ ret.op = "filter" /\ ret.status = "ok"
  /\ Len(ret.names) >= 1
  /\ Len(ret.names) < Len(catalog.names)

\* The smallest squared distance from the query to a cached object.
MinDist2(x, y) ==
  CHOOSE m \in {dist2(renderer, i, x, y) : i \in 1..Len(renderer.x)} :
    \A i \in 1..Len(renderer.x) : m <= dist2(renderer, i, x, y)

\* C5: with a non-empty pixel cache, findStar(x, y, radius) returns the
\* (altitude, azimuth, name) of an object of the latest render whose squared
\* distance to (x, y) is minimal, and returns it exactly when that distance
\* is strictly less than radius * radius; otherwise it returns nothing-found.
C5_FindNearest ==
  /\ renderer.hasPos =>
       /\ Len(renderer.x) = Len(renderer.names)
       /\ Len(renderer.y) = Len(renderer.names)
  /\ (ret.op = "findStar" /\ renderer.hasPos /\ Len(renderer.x) > 0) =>
       LET m == MinDist2(ret.x, ret.y) IN
       /\ ret.status = "ok"
       /\ ret.found <=> m < ret.radius * ret.radius * PosScale * PosScale
       /\ ret.found =>
            \E i \in 1..Len(renderer.x) :
              /\ dist2(renderer, i, ret.x, ret.y) = m
              /\ ret.alt = renderer.alt[i]
              /\ ret.az = renderer.az[i]
              /\ ret.name = renderer.names[i]

C5_Witness ==
  /\ ret.op = "findStar" /\ ret.status = "ok" /\ ret.found
  /\ Len(renderer.x) >= 2
  /\ \E i \in 1..Len(renderer.x) : dist2(renderer, i, ret.x, ret.y) > MinDist2(ret.x, ret.y)

MaxOf(a, b) == IF a >= b THEN a ELSE b

\* C6: render() draws every object of the filtered set as a filled circle of
\* radius max(1, 7 - magnitude) >= 1 and completes without an error, also
\* for magnitudes >= 6.
C6_RadiusFloor ==
  (ret.op \in {"render", "renderCatalog"} /\ renderer.hasSet) =>
    /\ ret.status = "ok"
    /\ \A i \in 1..Len(renderer.names) :
         \E k \in 1..Len(renderer.image.shapes) :
           LET shape == renderer.image.shapes[k] IN
           /\ shape.kind = "circle"
           /\ shape.obj = i
           /\ shape.radius = MaxOf(1, TruncDiv(7 * MagScale - renderer.vmag[i], MagScale))
           /\ shape.radius >= 1

\* C7: findStar on a renderer without cached render data ends in an error
\* and leaves the renderer as it was; a render()/renderCatalog() that
\* returns leaves the renderer with cached render data; cached render data
\* never goes away.
C7_RendererStates ==
  /\ [][(~renderer.hasPos /\ ret'.op = "findStar") =>
          (ret'.status = "error" /\ renderer' = renderer)]_vars
  /\ [][(ret'.op \in {"render", "renderCatalog"} /\ ret'.status = "ok") =>
          renderer'.hasPos]_vars
  /\ [][renderer.hasPos => renderer'.hasPos]_vars

C7_Witness ==
  /\ ret.op = "findStar" /\ ret.status = "error"
  /\ ~renderer.hasPos

\* C10: when filter(0, max_mag) selects nothing, renderCatalog() returns an
\* all-black raster without an error and leaves empty pixel caches, and a
\* following findStar returns nothing-found instead of ending in an error.
C10_EmptyPipeline ==
  /\ (ret.op = "renderCatalog" /\ catalog.calculated
        /\ Len(filterResult(catalog, 0, ret.max_mag).names) = 0) =>
       /\ ret.status = "ok"
       /\ ret.image.shapes = <<>>
       /\ renderer.hasPos
       /\ renderer.x = <<>>
       /\ renderer.y = <<>>
  /\ (ret.op = "findStar" /\ renderer.hasPos /\ Len(renderer.x) = 0) =>
       /\ ret.status = "ok"
       /\ ~ret.found

\* The rows handed to altazToPos, and the centre of the canvas.
RowsOf(altaz) == IF altaz.ndim = 1 THEN <<altaz.v>> ELSE altaz.v
Centre == renderer.size * HalfPos
OffCentre(p) == p # <<Centre, Centre>>

\* C8 as stated: azimuth 0 is at the top and azimuth grows clockwise on the
\* canvas (y down): 90 degrees on the right, 180 at the bottom, 270 on the
\* left.
C8_Clockwise ==
  ret.op = "altazToPos" =>
    \A i \in 1..Len(ret.pos) :
      LET az == RowsOf(ret.altaz)[i][2]
          x == ret.pos[i][1]
          y == ret.pos[i][2]
      IN OffCentre(ret.pos[i]) =>
           /\ az = 0 => (x = Centre /\ y < Centre)
           /\ az = 3 => (x > Centre /\ y = Centre)
           /\ az = 6 => (x = Centre /\ y > Centre)
           /\ az = 9 => (x < Centre /\ y = Centre)

\* C8 amended: azimuth 0 is at the top and azimuth grows counter-clockwise
\* on the canvas (y down): 90 degrees on the left (c - r, c), 180 at the
\* bottom (c, c + r), 270 on the right (c + r, c).
C8_CounterClockwise ==
  ret.op = "altazToPos" =>
    \A i \in 1..Len(ret.pos) :
      LET az == RowsOf(ret.altaz)[i][2]
          x == ret.pos[i][1]
          y == ret.pos[i][2]
      IN OffCentre(ret.pos[i]) =>
           /\ az = 0 => (x = Centre /\ y < Centre)
           /\ az = 3 => (x < Centre /\ y = Centre)
           /\ az = 6 => (x = Centre /\ y > Centre)
           /\ az = 9 => (x > Centre /\ y = Centre)

C8_Witness ==
  /\ ret.op = "altazToPos"
  /\ \E i \in 1..Len(ret.pos) :
       RowsOf(ret.altaz)[i][2] = 3 /\ OffCentre(ret.pos[i])

\* Squared distance of a projected point from the centre.
CentreDist2(p) ==
  (p[1] - Centre) * (p[1] - Centre) + (p[2] - Centre) * (p[2] - Centre)

\* C9: the distance of a projected point from the centre depends only on the
\* altitude: the zenith is the centre for every azimuth, the horizon is at
\* distance size/2, altitudes below the horizon are further out, and the
\* distance falls strictly as the altitude rises; the result has length 1 for
\* a single pair and n for n pairs.
C9_RadialByAltitude ==
  ret.op = "altazToPos" =>
    LET rows == RowsOf(ret.altaz) IN
    /\ Len(ret.pos) = (IF ret.altaz.ndim = 1 THEN 1 ELSE Len(ret.altaz.v))
    /\ \A i \in 1..Len(ret.pos) :
         /\ rows[i][1] = RightAngle => ret.pos[i] = <<Centre, Centre>>
         /\ rows[i][1] = 0 => CentreDist2(ret.pos[i]) = Centre * Centre
         /\ rows[i][1] < 0 => CentreDist2(ret.pos[i]) > Centre * Centre
    /\ \A i, j \in 1..Len(ret.pos) :
         /\ rows[i][1] = rows[j][1] => CentreDist2(ret.pos[i]) = CentreDist2(ret.pos[j])
         /\ rows[i][1] < rows[j][1] => CentreDist2(ret.pos[i]) > CentreDist2(ret.pos[j])

C9_Witness ==
  /\ ret.op = "altazToPos"
  /\ ret.altaz.ndim = 2
  /\ Len(ret.pos) = 2
  /\ RowsOf(ret.altaz)[1][1] < RowsOf(ret.altaz)[2][1]
  /\ RowsOf(ret.altaz)[1][2] # RowsOf(ret.altaz)[2][2]
====
